---- MODULE Spec2Model ----
(***************************************************************************)
(* Model of the Kalshi arbitrage bot orchestrator (src/src/bot.py) and of  *)
(* the trade executor, detectors, fee model and order gateway it drives.   *)
(* The orchestrator is translated from bot.py.  The executor, detectors,   *)
(* fee model, sizer and gateway follow the design specification, sections  *)
(* 4.1 - 4.5, 6 and 7.                                                     *)
(*                                                                         *)
(* Money is kept in integers: one currency unit (dollar) is Scale micro    *)
(* units, fee rates are in units of 1/10000 (3.5% = 350).                  *)
(***************************************************************************)
EXTENDS Integers, Sequences, FiniteSets, TLC

VARIABLES
    executor_auto,   \* trade_executor.auto_execute
    mode,            \* the entry point running: "immediate", "all", "continuous"
    pc,              \* where the running call stands
    arg_auto,        \* the call's auto_execute argument
    max_scans,       \* run_continuous: max_scans, 0 for None
    scan_count,      \* run_continuous: scan_count
    markets,         \* the filtered snapshots of the running scan
    original_auto,   \* the local original_auto
    scan_opps,       \* the ranked list scan_and_execute returns
    arbitrage_opps,  \* the local arbitrage_opps
    trade_opps,      \* the local trade_opps / opportunities
    batch,           \* the list the running execution loop iterates
    idx,             \* position of that loop in batch
    executed_count,  \* the local executed_count
    result,          \* << >> or << the value the scan returned >>
    gateway_log,     \* the orders submitted during the running scan, in order
    attempts,        \* the execute_trade calls of the running scan, in order
    outcomes,        \* what those calls returned, in order
    stop_pc,         \* where a KeyboardInterrupt caught the call, "" if none
    fetched_markets, \* what get_markets returned to the running scan, unfiltered
    scans_begun,     \* run_continuous: scan_all_opportunities calls started
    scans_done,      \* run_continuous: scan_all_opportunities calls returned
    fee_price,       \* the price get_fee_rate is asked about, 0 when not asked
    taker_rate,      \* get_fee_rate(fee_price, is_maker=False), -1 until computed
    maker_rate,      \* get_fee_rate(fee_price, is_maker=True), -1 until computed
    auto_execute_trades  \* the flag the bot was constructed with

bot_vars == << executor_auto, mode, pc, arg_auto, max_scans, scan_count, markets,
               original_auto, scan_opps, arbitrage_opps, trade_opps, batch, idx,
               executed_count, result, gateway_log, attempts, outcomes, stop_pc,
               fetched_markets, scans_begun, scans_done, auto_execute_trades >>

fee_vars == << fee_price, taker_rate, maker_rate >>

vars == << bot_vars, fee_vars >>

\* ------------------------------------------------------------------ bounds
\* longest list of market snapshots one fetch returns
MaxMarkets == 2
\* iterations run_continuous is followed for when max_scans is None
MaxScanCount == 2

\* ------------------------------------------------------- configuration
get_min_profit_cents == 2
get_max_position_size == 1000
get_min_liquidity == 10000
\* MIN_PROFIT_PER_DAY = 0.1 currency units, kept in tenths
get_min_profit_per_day_tenths == 1

\* micro units per currency unit
Scale == 1000000
\* an absent (None) price
Absent == 0
\* share of the quoted liquidity one opportunity may consume, in percent
LiquidityFractionPct == 10

Min(a, b) == IF a < b THEN a ELSE b
Abs(a) == IF a < 0 THEN 0 - a ELSE a

\* ------------------------------------------------------------ fee model
\* taker rate by distance from 50 cents, in units of 1/10000
TakerRate(price_cents) ==
    LET d == Abs(price_cents - 50) IN
    IF d <= 5 THEN 350
    ELSE IF d <= 15 THEN 300
    ELSE IF d <= 25 THEN 250
    ELSE IF d <= 35 THEN 200
    ELSE IF d <= 45 THEN 150
    ELSE 100

\* a fee schedule without the maker discount
taker_rate_for_both(price_cents, is_maker) == TakerRate(price_cents)

\* get_fee_rate(price_cents, is_maker): the maker pays half the taker rate
get_fee_rate(price_cents, is_maker) ==
    IF is_maker THEN TakerRate(price_cents) \div 2 ELSE TakerRate(price_cents)

\* calculate_fee: price * quantity * rate / 100 currency units, in micro units
calculate_fee(price_cents, quantity, is_maker) ==
    price_cents * quantity * get_fee_rate(price_cents, is_maker)

\* ------------------------------------------------------- position sizer
\* contracts to trade at price_cents on a market with the given liquidity
position_size(liquidity, price_cents, max_position_size) ==
    IF liquidity < get_min_liquidity \/ price_cents <= 0 THEN 0
    ELSE Min(max_position_size,
             ((liquidity * LiquidityFractionPct) \div 100) \div price_cents)

\* ------------------------------------------------------ market snapshots
\* The quotes a venue can show for one market; ticker is filled in by
\* MarketLists.  Prices are cents in 1..99 or Absent.
Quote(yb, ya, nb, na, liq, days) ==
    [ticker |-> 0, yes_bid |-> yb, yes_ask |-> ya, no_bid |-> nb, no_ask |-> na,
     liquidity |-> liq, days |-> days]

SnapshotKinds ==
    { Quote(60, 55, 38, 42, 1000000, 2),      \* yes side crossed, deep book
      Quote(54, 50, 30, 20, 100000, 1),       \* both sides crossed, yes side narrowly
      Quote(60, 55, Absent, Absent, 10000, 3),\* yes side crossed, thin book
      Quote(38, 40, 43, 45, 1000000, 1),      \* not crossed, yes_ask + no_ask < 100
      Quote(50, 49, 50, 51, 1000000, 4),      \* crossed by 1 cent: fees exceed spread
      Quote(60, 55, 30, 20, 5000, 2) }        \* crossed, liquidity below the minimum

\* every list of at most MaxMarkets snapshots, tickers unique
MarketLists ==
    UNION { { [i \in 1..n |-> [f[i] EXCEPT !.ticker = i]] : f \in [1..n -> SnapshotKinds] }
            : n \in 0..MaxMarkets }

\* ------------------------------------------------- liquidity filter (bot)
has_tradeable_liquidity(market) ==
    LET has_yes == market.yes_bid # Absent /\ market.yes_ask # Absent
                   /\ market.yes_bid # market.yes_ask
        has_no == market.no_bid # Absent /\ market.no_ask # Absent
                  /\ market.no_bid # market.no_ask
    IN has_yes \/ has_no

\* a filter that only asks for tradeable quotes
filter_tradeable_only(mkts) == SelectSeq(mkts, has_tradeable_liquidity)

filter_markets_by_liquidity(mkts) ==
    LET keep(m) == m.liquidity >= get_min_liquidity /\ has_tradeable_liquidity(m)
    IN SelectSeq(mkts, keep)

\* _fetch_and_filter_markets: an empty fetch stays empty, else the filter
fetch_and_filter_markets(fetched) ==
    IF fetched = <<>> THEN <<>> ELSE filter_markets_by_liquidity(fetched)

\* ------------------------------------------------ spread capture detector
\* the opportunity of one side of one market, or <<>> when there is none
SideOpportunity(market, side) ==
    LET bid == IF side = "yes" THEN market.yes_bid ELSE market.no_bid
        ask == IF side = "yes" THEN market.yes_ask ELSE market.no_ask
        spread == bid - ask
        qty == position_size(market.liquidity, ask, get_max_position_size)
        gross == spread * qty * (Scale \div 100)
        net == gross - calculate_fee(ask, qty, FALSE) - calculate_fee(bid, qty, FALSE)
    IN IF bid # Absent /\ ask # Absent /\ spread > 0 /\ net > 0
       THEN << [market_ticker |-> market.ticker, side |-> side, buy_price |-> ask,
                sell_price |-> bid, spread |-> spread, quantity |-> qty,
                gross_profit |-> gross, net_profit |-> net] >>
       ELSE <<>>

RECURSIVE find_trade_opportunities(_)
find_trade_opportunities(mkts) ==
    IF mkts = <<>> THEN <<>>
    ELSE SideOpportunity(Head(mkts), "yes") \o SideOpportunity(Head(mkts), "no")
         \o find_trade_opportunities(Tail(mkts))

\* --------------------------------------------- probability arbitrage detector
PairOpportunity(market) ==
    LET total == market.yes_ask + market.no_ask
        deviation == 100 - total
        qty == position_size(market.liquidity, total, get_max_position_size)
        gross == deviation * qty * (Scale \div 100)
        net == gross - calculate_fee(market.yes_ask, qty, FALSE)
                     - calculate_fee(market.no_ask, qty, FALSE)
    IN IF market.yes_ask # Absent /\ market.no_ask # Absent /\ deviation > 0 /\ net > 0
       THEN << [market_ticker |-> market.ticker, deviation |-> deviation,
                quantity |-> qty, net_profit |-> net,
                days_to_expiration |-> market.days] >>
       ELSE <<>>

RECURSIVE find_opportunities(_)
find_opportunities(mkts) ==
    IF mkts = <<>> THEN <<>>
    ELSE PairOpportunity(Head(mkts)) \o find_opportunities(Tail(mkts))

\* bot.py: o.profit_per_day >= self.min_profit_per_day, profit_per_day = net / days
filter_profit_per_day(opps) ==
    LET keep(o) == o.net_profit * 10
                   >= get_min_profit_per_day_tenths * o.days_to_expiration * Scale
    IN SelectSeq(opps, keep)

\* ------------------------------------------------------------- sorting
\* list.sort(key=net_profit, reverse=True): descending and stable
RECURSIVE InsertDesc(_, _)
InsertDesc(sorted, o) ==
    IF sorted = <<>> THEN << o >>
    ELSE IF Head(sorted).net_profit >= o.net_profit
         THEN << Head(sorted) >> \o InsertDesc(Tail(sorted), o)
         ELSE << o >> \o sorted

RECURSIVE InsertAsc(_, _)
InsertAsc(sorted, o) ==
    IF sorted = <<>> THEN << o >>
    ELSE IF Head(sorted).net_profit <= o.net_profit
         THEN << Head(sorted) >> \o InsertAsc(Tail(sorted), o)
         ELSE << o >> \o sorted

RECURSIVE SortDescInto(_, _)
SortDescInto(acc, opps) ==
    IF opps = <<>> THEN acc ELSE SortDescInto(InsertDesc(acc, Head(opps)), Tail(opps))

RECURSIVE SortAscInto(_, _)
SortAscInto(acc, opps) ==
    IF opps = <<>> THEN acc ELSE SortAscInto(InsertAsc(acc, Head(opps)), Tail(opps))

\* a sort whose reverse=True was left out
sort_ascending(opps) == SortAscInto(<<>>, opps)

\* bot.py: opportunities.sort(key=lambda x: x.net_profit, reverse=True)
sort_by_net_profit(opps) == SortDescInto(<<>>, opps)

\* a filter that asks for the executor's minimum profit instead of any profit
profitable_above_minimum(opps) ==
    LET keep(o) == o.net_profit >= get_min_profit_cents * Scale IN SelectSeq(opps, keep)

\* bot.py: profitable = [o for o in trade_opps if o.net_profit > 0]
profitable_of(opps) ==
    LET keep(o) == o.net_profit > 0 IN SelectSeq(opps, keep)

\* ------------------------------------------------ executor (TradeExecutor)
\* the executor ranks what it detected, best first
rank_opportunities(opps) == SortDescInto(<<>>, opps)

\* the opportunities the executor's own scan loop executes under auto_execute
executable_of(ranked) ==
    LET keep(o) == o.net_profit > 0 IN SelectSeq(ranked, keep)

\* min_profit_cents converted to whole currency units on the way to the executor
min_profit_in_whole_units == get_min_profit_cents \div 100

\* bot.py __init__: min_profit_cents=get_min_profit_cents()
executor_min_profit_cents == get_min_profit_cents

\* execute_trade's profitability gate: net_profit >= min_profit_cents
passes_profit_gate(opp) == opp.net_profit >= executor_min_profit_cents * Scale

\* what the venue can answer to one submitOrder
GatewayAnswers == {"accepted", "rejected", "fault", "fatal"}

\* an executor that lets a gateway exception escape
submit_order_unguarded(answer) == IF answer = "fault" THEN "raise" ELSE answer

\* the executor's view of a submission: an exception counts as accepted=false
submit_order(answer) == IF answer = "fault" THEN "rejected" ELSE answer

\* the message of a failed execution, by the leg that failed
failure_message(leg) == IF leg = 1 THEN "rejected" ELSE "partial"

\* the executor's scan loop goes on after an execution unless it was fatal
scan_loop_continues(success, fatal) == ~fatal

\* an orchestrator loop that gives up at the first failed execution
bot_loop_breaks_on_failure(success) == success

\* bot.py 162-166: the orchestrator's loop has no break
bot_loop_continues(success) == TRUE

\* the executor flag taken from the caller's argument
flag_from_argument(auto_execute) == auto_execute

\* the executor flag left as the constructor set it
flag_left_as_constructed(auto_execute) == executor_auto

\* a finally block that leaves the flag as the scan step had it
flag_not_restored(orig, current) == current

\* bot.py 126-127, 156-157: finally: self.trade_executor.auto_execute = original_auto
restored_flag(orig, current) == orig

\* the loop test written with >= : one scan short
reached_max_scans_one_early(count, max) == max # 0 /\ count >= max

\* bot.py 293: if max_scans and scan_count > max_scans
reached_max_scans(count, max) == max # 0 /\ count > max

\* bot.py 121: self.trade_executor.auto_execute = auto_execute
scan_immediate_flag(auto_execute) == auto_execute

\* bot.py 152: self.trade_executor.auto_execute = False
scan_all_flag(auto_execute) == FALSE

\* ------------------------------------------------------------- actions
ReturnPc(m) == IF m = "continuous" THEN "sleeping" ELSE "returned"

Returned(arb, trades, count) ==
    << [arbitrage |-> arb, trades |-> trades, executed |-> count] >>

Order(opp, leg, answer, by) ==
    [attempt |-> Len(attempts) + (IF leg = 1 THEN 1 ELSE 0),
     ticker |-> opp.market_ticker, side |-> opp.side, leg |-> leg,
     action |-> IF leg = 1 THEN "buy" ELSE "sell",
     price |-> IF leg = 1 THEN opp.buy_price ELSE opp.sell_price,
     quantity |-> opp.quantity, answer |-> answer, by |-> by]

\* bot.py 124-127 and 155-168: the orchestrator once scan_and_execute has
\* returned `ranked`: sort, restore the flag, then return or start its own loop
AfterScanStep(m, auto, orig, current, arb, ranked) ==
    LET sorted == sort_by_net_profit(ranked)
        prof == profitable_of(sorted)
    IN /\ trade_opps' = sorted
       /\ executor_auto' = restored_flag(orig, current)
       /\ executed_count' = 0
       /\ IF m # "immediate" /\ auto /\ sorted # <<>> /\ prof # <<>>
          THEN /\ pc' = "bot_exec"
               /\ batch' = prof
               /\ idx' = 1
               /\ result' = <<>>
          ELSE /\ pc' = ReturnPc(m)
               /\ batch' = <<>>
               /\ idx' = 0
               /\ result' = Returned(arb, sorted, 0)

\* an exception leaving execute_trade: the scan step's finally restores the
\* flag, nothing else catches it
Propagate(by) ==
    /\ pc' = "raised"
    /\ executor_auto' = IF by = "scan" THEN restored_flag(original_auto, executor_auto)
                        ELSE executor_auto
    /\ UNCHANGED << trade_opps, batch, idx, executed_count, result >>

\* execute_trade has returned (success, message) to the loop that called it
ExecuteReturned(by, success, fatal) ==
    IF by = "scan"
    THEN IF idx < Len(batch) /\ scan_loop_continues(success, fatal)
         THEN /\ pc' = "scan_exec"
              /\ idx' = idx + 1
              /\ UNCHANGED << executor_auto, trade_opps, batch, executed_count, result >>
         ELSE AfterScanStep(mode, arg_auto, original_auto, executor_auto,
                            arbitrage_opps, scan_opps)
    ELSE LET count == IF success THEN executed_count + 1 ELSE executed_count IN
         /\ executed_count' = count
         /\ UNCHANGED << executor_auto, trade_opps >>
         /\ IF idx < Len(batch) /\ bot_loop_continues(success)
            THEN /\ pc' = "bot_exec"
                 /\ idx' = idx + 1
                 /\ UNCHANGED << batch, result >>
            ELSE /\ pc' = ReturnPc(mode)
                 /\ batch' = <<>>
                 /\ idx' = 0
                 /\ result' = Returned(arbitrage_opps, trade_opps, count)

\* scan_immediate_trades / scan_all_opportunities up to the first gateway call
BeginScan(m, auto, fetched) ==
    LET filtered == fetch_and_filter_markets(fetched)
        arb == IF m = "immediate" THEN <<>>
               ELSE filter_profit_per_day(find_opportunities(filtered))
        flag == IF m = "immediate" THEN scan_immediate_flag(auto) ELSE scan_all_flag(auto)
        ranked == rank_opportunities(find_trade_opportunities(filtered))
        todo == executable_of(ranked)
    IN /\ fetched_markets' = fetched
       /\ markets' = filtered
       /\ arg_auto' = auto
       /\ gateway_log' = <<>>
       /\ attempts' = <<>>
       /\ outcomes' = <<>>
       /\ original_auto' = executor_auto
       /\ IF filtered = <<>>
          THEN /\ pc' = ReturnPc(m)
               /\ result' = Returned(<<>>, <<>>, 0)
               /\ scan_opps' = <<>>
               /\ arbitrage_opps' = <<>>
               /\ trade_opps' = <<>>
               /\ batch' = <<>>
               /\ idx' = 0
               /\ executed_count' = 0
               /\ UNCHANGED executor_auto
          ELSE /\ scan_opps' = ranked
               /\ arbitrage_opps' = arb
               /\ IF flag /\ todo # <<>>
                  THEN /\ executor_auto' = flag
                       /\ pc' = "scan_exec"
                       /\ batch' = todo
                       /\ idx' = 1
                       /\ trade_opps' = <<>>
                       /\ executed_count' = 0
                       /\ result' = <<>>
                  ELSE AfterScanStep(m, auto, executor_auto, flag, arb, ranked)

Callable == pc = "idle"

\* scan_all_opportunities has returned into the loop of run_continuous
CountScanDone ==
    scans_done' = IF pc' = "sleeping" THEN scans_done + 1 ELSE scans_done

\* bot.py 99-109: fetch, filter, detect pairs, keep those paying enough per day
scan_arbitrage_opportunities ==
    /\ Callable
    /\ \E fetched \in MarketLists :
          LET filtered == fetch_and_filter_markets(fetched)
              arb == IF filtered = <<>> THEN <<>>
                     ELSE filter_profit_per_day(find_opportunities(filtered))
          IN /\ fetched_markets' = fetched
             /\ markets' = filtered
             /\ arbitrage_opps' = arb
             /\ result' = Returned(arb, <<>>, 0)
    /\ mode' = "arbitrage"
    /\ pc' = "returned"
    /\ arg_auto' = FALSE
    /\ stop_pc' = ""
    /\ UNCHANGED << executor_auto, original_auto, max_scans, scan_count, scan_opps,
                    trade_opps, batch, idx, executed_count, gateway_log, attempts,
                    outcomes, scans_begun, scans_done, fee_vars,
                    auto_execute_trades >>

scan_immediate_trades ==
    /\ Callable
    /\ \E auto \in BOOLEAN, fetched \in MarketLists :
          BeginScan("immediate", auto, fetched)
    /\ mode' = "immediate"
    /\ stop_pc' = ""
    /\ UNCHANGED << max_scans, scan_count, scans_begun, scans_done, fee_vars,
                    auto_execute_trades >>

scan_all_opportunities ==
    /\ Callable
    /\ \E auto \in BOOLEAN, fetched \in MarketLists :
          BeginScan("all", auto, fetched)
    /\ mode' = "all"
    /\ stop_pc' = ""
    /\ UNCHANGED << max_scans, scan_count, scans_begun, scans_done, fee_vars,
                    auto_execute_trades >>

\* run_continuous up to the head of its loop
run_continuous ==
    /\ Callable
    /\ \E auto \in BOOLEAN, ms \in 0..MaxScanCount :
          /\ arg_auto' = auto
          /\ max_scans' = ms
    /\ mode' = "continuous"
    /\ scan_count' = 0
    /\ pc' = "loop_head"
    /\ stop_pc' = ""
    /\ result' = <<>>
    /\ scans_begun' = 0
    /\ scans_done' = 0
    /\ UNCHANGED << executor_auto, markets, original_auto, scan_opps, arbitrage_opps,
                    trade_opps, batch, idx, executed_count, gateway_log, attempts,
                    outcomes, fetched_markets, fee_vars,
                    auto_execute_trades >>

\* scan_count += 1; if max_scans and scan_count > max_scans: break
ContinuousBreak ==
    /\ pc = "loop_head"
    /\ reached_max_scans(scan_count + 1, max_scans)
    /\ scan_count' = scan_count + 1
    /\ pc' = "finished"
    /\ UNCHANGED << executor_auto,  mode, arg_auto, max_scans, markets,
                    original_auto, scan_opps, arbitrage_opps, trade_opps, batch, idx,
                    executed_count, result, gateway_log, attempts, outcomes, stop_pc,
                    fetched_markets, scans_begun, scans_done, fee_vars,
                    auto_execute_trades >>

\* one more iteration: the scan_all_opportunities call of the loop body
ContinuousScan ==
    /\ pc = "loop_head"
    /\ ~reached_max_scans(scan_count + 1, max_scans)
    /\ scan_count < MaxScanCount
    /\ scan_count' = scan_count + 1
    /\ scans_begun' = scans_begun + 1
    /\ \E fetched \in MarketLists : BeginScan("continuous", arg_auto, fetched)
    /\ CountScanDone
    /\ UNCHANGED <<  mode, max_scans, stop_pc, fee_vars,
                    auto_execute_trades >>

\* the locals of a finished scan go out of scope
ForgetLocals ==
    /\ markets' = <<>>
    /\ original_auto' = executor_auto
    /\ scan_opps' = <<>>
    /\ arbitrage_opps' = <<>>
    /\ trade_opps' = <<>>
    /\ batch' = <<>>
    /\ idx' = 0
    /\ executed_count' = 0
    /\ result' = <<>>
    /\ gateway_log' = <<>>
    /\ attempts' = <<>>
    /\ outcomes' = <<>>
    /\ fetched_markets' = <<>>

\* the counts are printed and time.sleep(scan_interval) is over
ContinuousSleep ==
    /\ pc = "sleeping"
    /\ pc' = "loop_head"
    /\ ForgetLocals
    /\ UNCHANGED << executor_auto,  mode, arg_auto, max_scans, scan_count, stop_pc,
                    scans_begun, scans_done, fee_vars,
                    auto_execute_trades >>

\* the entry point has returned (or raised) to its caller, which is done with
\* the result and may call the bot again
CallerResumes ==
    /\ pc \in {"returned", "raised", "interrupted", "finished", "stopped"}
    /\ pc' = "idle"
    /\ mode' = "none"
    /\ arg_auto' = FALSE
    /\ max_scans' = 0
    /\ scan_count' = 0
    /\ scans_begun' = 0
    /\ scans_done' = 0
    /\ stop_pc' = ""
    /\ ForgetLocals
    /\ UNCHANGED << executor_auto,  fee_vars,
                    auto_execute_trades >>

ExecPc(by) == IF by = "scan" THEN "scan_exec" ELSE "bot_exec"
Leg2Pc(by) == IF by = "scan" THEN "scan_leg2" ELSE "bot_leg2"

\* execute_trade up to and including the submission of its first leg
ExecuteTrade(by) ==
    /\ pc = ExecPc(by)
    /\ LET opp == batch[idx] IN
       /\ attempts' = Append(attempts, [ticker |-> opp.market_ticker, side |-> opp.side,
                                        net_profit |-> opp.net_profit, by |-> by])
       /\ IF ~passes_profit_gate(opp)
          THEN /\ gateway_log' = gateway_log
               /\ outcomes' = Append(outcomes, [success |-> FALSE,
                                                message |-> "below threshold"])
               /\ ExecuteReturned(by, FALSE, FALSE)
          ELSE \E answer \in GatewayAnswers :
               /\ gateway_log' = Append(gateway_log, Order(opp, 1, answer, by))
               /\ LET seen == submit_order(answer) IN
                  CASE seen = "accepted" ->
                          /\ outcomes' = outcomes
                          /\ pc' = Leg2Pc(by)
                          /\ UNCHANGED << executor_auto, trade_opps, batch, idx,
                                          executed_count, result >>
                    [] seen = "raise" ->
                          /\ outcomes' = outcomes
                          /\ Propagate(by)
                    [] OTHER ->
                          /\ outcomes' = Append(outcomes, [success |-> FALSE,
                                                           message |-> failure_message(1)])
                          /\ ExecuteReturned(by, FALSE, seen = "fatal")
    /\ CountScanDone
    /\ UNCHANGED <<  mode, arg_auto, max_scans, scan_count, markets, original_auto,
                    scan_opps, arbitrage_opps, stop_pc, fetched_markets, scans_begun,
                    fee_vars,
                    auto_execute_trades >>

\* execute_trade from the submission of its second leg to its return
SecondLeg(by) ==
    /\ pc = Leg2Pc(by)
    /\ \E answer \in GatewayAnswers :
       /\ gateway_log' = Append(gateway_log, Order(batch[idx], 2, answer, by))
       /\ LET seen == submit_order(answer) IN
          CASE seen = "accepted" ->
                  /\ outcomes' = Append(outcomes, [success |-> TRUE, message |-> "executed"])
                  /\ ExecuteReturned(by, TRUE, FALSE)
            [] seen = "raise" ->
                  /\ outcomes' = outcomes
                  /\ Propagate(by)
            [] OTHER ->
                  /\ outcomes' = Append(outcomes, [success |-> FALSE,
                                                   message |-> failure_message(2)])
                  /\ ExecuteReturned(by, FALSE, seen = "fatal")
    /\ CountScanDone
    /\ UNCHANGED <<  mode, arg_auto, max_scans, scan_count, markets, original_auto,
                    scan_opps, arbitrage_opps, attempts, stop_pc, fetched_markets,
                    scans_begun, fee_vars,
                    auto_execute_trades >>

ScanExecuteTrade == ExecuteTrade("scan")
ScanSecondLeg == SecondLeg("scan")
BotExecuteTrade == ExecuteTrade("bot")
BotSecondLeg == SecondLeg("bot")

\* Ctrl+C while an entry point is running: KeyboardInterrupt is raised where
\* the program stands and unwinds through the finally of the scan step; only
\* run_continuous catches it, the scan entry points let it out to the caller
KeyboardInterrupt ==
    /\ mode \in {"immediate", "all", "continuous"}
    /\ pc \in {"loop_head", "sleeping", "scan_exec", "scan_leg2", "bot_exec", "bot_leg2"}
    /\ stop_pc' = pc
    /\ pc' = IF mode = "continuous" THEN "stopped" ELSE "interrupted"
    /\ executor_auto' = IF pc \in {"scan_exec", "scan_leg2"}
                        THEN restored_flag(original_auto, executor_auto)
                        ELSE executor_auto
    /\ UNCHANGED <<  mode, arg_auto, max_scans, scan_count, markets, original_auto,
                    scan_opps, arbitrage_opps, trade_opps, batch, idx, executed_count,
                    result, gateway_log, attempts, outcomes, fetched_markets,
                    scans_begun, scans_done, fee_vars,
                    auto_execute_trades >>

\* the two get_fee_rate calls the fee tests make for one price
get_fee_rates ==
    /\ fee_price \in 1..99
    /\ taker_rate = -1 /\ maker_rate = -1
    /\ taker_rate' = get_fee_rate(fee_price, FALSE)
    /\ maker_rate' = get_fee_rate(fee_price, TRUE)
    /\ UNCHANGED << fee_price, bot_vars >>

BotInit ==
    /\ auto_execute_trades \in BOOLEAN
    /\ executor_auto = auto_execute_trades
    /\ mode = "none"
    /\ pc = "idle"
    /\ arg_auto = FALSE
    /\ max_scans = 0
    /\ scan_count = 0
    /\ markets = <<>>
    /\ original_auto = executor_auto
    /\ scan_opps = <<>>
    /\ arbitrage_opps = <<>>
    /\ trade_opps = <<>>
    /\ batch = <<>>
    /\ idx = 0
    /\ executed_count = 0
    /\ result = <<>>
    /\ gateway_log = <<>>
    /\ attempts = <<>>
    /\ outcomes = <<>>
    /\ stop_pc = ""
    /\ fetched_markets = <<>>
    /\ scans_begun = 0
    /\ scans_done = 0

Init ==
    /\ BotInit
    /\ fee_price = 0
    /\ taker_rate = -1
    /\ maker_rate = -1

\* the fee model on its own: any price in cents, rates not yet computed
FeeInit ==
    /\ BotInit
    /\ fee_price \in 1..99
    /\ taker_rate = -1
    /\ maker_rate = -1

FeeNext == get_fee_rates

FeeSpec == FeeInit /\ [][FeeNext]_vars

Next ==
    \/ scan_arbitrage_opportunities
    \/ scan_immediate_trades
    \/ scan_all_opportunities
    \/ run_continuous
    \/ ContinuousBreak
    \/ ContinuousScan
    \/ ContinuousSleep
    \/ ScanExecuteTrade
    \/ ScanSecondLeg
    \/ BotExecuteTrade
    \/ BotSecondLeg
    \/ KeyboardInterrupt
    \/ CallerResumes

Spec == Init /\ [][Next]_vars

\* a bot used for continuous monitoring only
ContinuousNext ==
    \/ run_continuous
    \/ ContinuousBreak
    \/ ContinuousScan
    \/ ContinuousSleep
    \/ ScanExecuteTrade
    \/ ScanSecondLeg
    \/ BotExecuteTrade
    \/ BotSecondLeg
    \/ KeyboardInterrupt
    \/ CallerResumes

\* the bot is one thread that keeps running: the loop of run_continuous goes
\* on, time.sleep returns, and the venue answers every submitted order
ContinuousSpec ==
    /\ Init /\ [][ContinuousNext]_vars
    /\ WF_vars(ContinuousBreak)
    /\ WF_vars(ContinuousScan)
    /\ WF_vars(ContinuousSleep)
    /\ WF_vars(ScanExecuteTrade)
    /\ WF_vars(ScanSecondLeg)
    /\ WF_vars(BotExecuteTrade)
    /\ WF_vars(BotSecondLeg)

\* ---------------------------------------------------------- properties
OppId(o) == << o.market_ticker, o.side >>
AttemptId(a) == << a.ticker, a.side >>
Threshold == get_min_profit_cents * Scale
InCall == mode \in {"immediate", "all", "continuous"}
AtReturn == InCall /\ pc \in {"returned", "sleeping"}
\* the orders execute_trade call number i submitted
OrdersOf(i) == { k \in DOMAIN gateway_log : gateway_log[k].attempt = i }
AnswerOf(i, leg) ==
    { gateway_log[k].answer : k \in { n \in OrdersOf(i) : gateway_log[n].leg = leg } }
IsDescending(opps) ==
    \A i, j \in DOMAIN opps : i < j => opps[i].net_profit >= opps[j].net_profit
SomePassesGate(opps) == \E k \in DOMAIN opps : opps[k].net_profit >= Threshold

\* C1: a scan called with auto_execute = false submits no order to the
\* gateway, whatever flag the executor was constructed with and whatever the
\* snapshots hold.
C1_NoOrderWithoutAutoExecute ==
    (InCall /\ ~arg_auto) => gateway_log = <<>>

\* C1 witness: scan_all_opportunities(auto_execute=False) has returned an
\* executable opportunity on a bot whose executor was constructed with
\* auto_execute = True.
C1_Witness ==
    /\ mode = "all" /\ pc = "returned" /\ ~arg_auto
    /\ executor_auto /\ original_auto
    /\ SomePassesGate(result[1].trades)
    /\ gateway_log = <<>>

\* C2: within one scan every opportunity is the subject of at most one
\* execute attempt and each of its legs reaches the gateway at most once.
C2_AtMostOneAttempt ==
    /\ \A i, j \in DOMAIN attempts :
          i # j => AttemptId(attempts[i]) # AttemptId(attempts[j])
    /\ \A i, j \in DOMAIN gateway_log :
          i # j => << gateway_log[i].ticker, gateway_log[i].side, gateway_log[i].leg >>
                   # << gateway_log[j].ticker, gateway_log[j].side, gateway_log[j].leg >>

\* C2 witness: an auto-executing scan_all_opportunities has returned after
\* two executions, one of which failed at the gateway.
C2_Witness ==
    /\ mode = "all" /\ pc = "returned" /\ arg_auto
    /\ Len(attempts) >= 2 /\ Len(gateway_log) >= 2
    /\ \E i \in DOMAIN outcomes : ~outcomes[i].success /\ OrdersOf(i) # {}

\* C3: execute on an opportunity whose net_profit is below min_profit_cents
\* returns (false, below threshold) at once and submits nothing.
C3_BelowThresholdNoGatewayCall ==
    \A i \in DOMAIN attempts :
        attempts[i].net_profit < Threshold =>
            /\ i \in DOMAIN outcomes
            /\ outcomes[i] = [success |-> FALSE, message |-> "below threshold"]
            /\ OrdersOf(i) = {}

\* C3 witness: a scan executed one opportunity through the gateway and
\* rejected another one locally for being below the threshold.
C3_Witness ==
    /\ AtReturn
    /\ \E i \in DOMAIN attempts : attempts[i].net_profit < Threshold
    /\ gateway_log # <<>>

\* an execution whose first leg was accepted and whose second was rejected
IsPartial(i) == AnswerOf(i, 1) = {"accepted"} /\ AnswerOf(i, 2) = {"rejected"}
\* an execution whose first leg was rejected
IsCleanRejection(i) == AnswerOf(i, 1) = {"rejected"}

\* C4: first leg accepted, second leg rejected: execute returns success =
\* false with a partial-execution outcome that differs from every other
\* outcome, the first leg is submitted once and the opportunity is attempted
\* once in the scan.
C4_PartialExecutionReported ==
    \A i \in DOMAIN outcomes :
        IsPartial(i) =>
            /\ ~outcomes[i].success
            /\ outcomes[i].message \notin {"rejected", "below threshold", "executed"}
            /\ \A j \in DOMAIN outcomes :
                  IsCleanRejection(j) => outcomes[j].message # outcomes[i].message
            /\ Cardinality({ k \in DOMAIN gateway_log :
                               /\ gateway_log[k].leg = 1
                               /\ gateway_log[k].ticker = attempts[i].ticker
                               /\ gateway_log[k].side = attempts[i].side }) = 1
            /\ Cardinality({ j \in DOMAIN attempts :
                               AttemptId(attempts[j]) = AttemptId(attempts[i]) }) = 1

\* C4 witness: a returned scan holds a partial execution, followed by a
\* clean rejection of a later opportunity.
C4_Witness ==
    /\ AtReturn
    /\ \E i, j \in DOMAIN outcomes : i < j /\ IsPartial(i) /\ IsCleanRejection(j)

\* C5: execute attempts are made only on opportunities with net_profit > 0
\* and in descending net_profit order.
C5_AttemptsDescending ==
    /\ \A i \in DOMAIN attempts : attempts[i].net_profit > 0
    /\ IsDescending(attempts)

\* C5 witness: scan_all_opportunities(auto_execute=True) has returned after
\* attempting two opportunities of different net_profit which the detector
\* had found in the opposite order.
C5_Witness ==
    /\ mode = "all" /\ pc = "returned" /\ arg_auto
    /\ Len(attempts) >= 2
    /\ attempts[1].net_profit > attempts[2].net_profit
    /\ ~IsDescending(find_trade_opportunities(markets))

\* C6: once the gateway has failed fatally, no further order is submitted in
\* that scan: a fatal answer is the last entry of the scan's order log.
C6_FatalAbortsBatch ==
    \A k \in DOMAIN gateway_log :
        gateway_log[k].answer = "fatal" => k = Len(gateway_log)

\* C7: a non-fatal failure does not stop the batch: when an auto-executing
\* scan returns, every opportunity with net_profit > 0 of the ranked list
\* has been attempted unless a fatal failure came before it.
C7_BatchContinuesAfterFailure ==
    (AtReturn /\ arg_auto /\ result # <<>>) =>
        LET prof == profitable_of(result[1].trades) IN
        \A k \in DOMAIN prof :
            (\A n \in DOMAIN gateway_log :
                gateway_log[n].answer = "fatal" => gateway_log[n].attempt >= k)
            => /\ k \in DOMAIN attempts
               /\ AttemptId(attempts[k]) = OppId(prof[k])

\* C7 witness: in a returned scan_all_opportunities batch a rejected order
\* and a below-threshold skip were each followed by a further attempt.
C7_Witness ==
    /\ mode = "all" /\ pc = "returned" /\ arg_auto
    /\ \E i \in DOMAIN outcomes :
          /\ outcomes[i].message = "rejected" /\ AnswerOf(i, 1) = {"rejected"}
          /\ i < Len(attempts)
    /\ \E i \in DOMAIN outcomes :
          outcomes[i].message = "below threshold" /\ i < Len(attempts)

\* C8: run_continuous stops only between scans: when it has stopped, every
\* execution whose first leg was submitted has had its second leg attempted.
C8_InterruptOnlyBetweenScans ==
    pc = "stopped" =>
        \A i \in DOMAIN attempts :
            AnswerOf(i, 1) = {"accepted"} => AnswerOf(i, 2) # {}

\* C9: a gateway exception never leaves execute or the scan: it is reported
\* as (false, message) exactly as an accepted = false answer is, and the scan
\* returns its result.
C9_GatewayFaultReported ==
    /\ pc # "raised"
    /\ \A i \in DOMAIN attempts :
          LET first == AnswerOf(i, 1)
              second == AnswerOf(i, 2)
          IN /\ first \in {{"fault"}, {"rejected"}} =>
                   /\ i \in DOMAIN outcomes
                   /\ outcomes[i] = [success |-> FALSE, message |-> "rejected"]
             /\ second \in {{"fault"}, {"rejected"}} =>
                   /\ i \in DOMAIN outcomes
                   /\ outcomes[i] = [success |-> FALSE, message |-> "partial"]

\* C9 witness: a scan has returned its result although the gateway raised on
\* the first leg of one execution and on the second leg of another.
C9_Witness ==
    /\ AtReturn /\ result # <<>>
    /\ \E i, j \in DOMAIN outcomes :
          AnswerOf(i, 1) = {"fault"} /\ AnswerOf(j, 2) = {"fault"}

\* C10: the spread opportunities a scan returns are the full detected list
\* for the snapshots, ordered by net_profit descending (equal ones in the
\* order detected), a function of the snapshots alone: the same with or
\* without auto_execute and whatever the gateway answered.
C10_ReturnedListIndependentOfExecution ==
    (AtReturn /\ result # <<>>) =>
        LET detected == find_trade_opportunities(markets)
            trades == result[1].trades
            Pos(o) == CHOOSE k \in DOMAIN detected : detected[k] = o
        IN /\ Len(trades) = Len(detected)
           /\ { trades[k] : k \in DOMAIN trades } = { detected[k] : k \in DOMAIN detected }
           /\ IsDescending(trades)
           /\ \A i, j \in DOMAIN trades :
                 (i < j /\ trades[i].net_profit = trades[j].net_profit)
                 => Pos(trades[i]) < Pos(trades[j])

\* C10 witness: an auto-executing scan has returned two opportunities, in
\* another order than detected, after one execution succeeded and one failed.
C10_Witness ==
    /\ AtReturn /\ arg_auto /\ result # <<>>
    /\ Len(result[1].trades) >= 2
    /\ result[1].trades # find_trade_opportunities(markets)
    /\ \E i, j \in DOMAIN outcomes : outcomes[i].success /\ ~outcomes[j].success

\* the tickers the venue listed with liquidity below min_liquidity
BelowMinLiquidity ==
    { fetched_markets[k].ticker :
        k \in { n \in DOMAIN fetched_markets :
                   fetched_markets[n].liquidity < get_min_liquidity } }
TickersOf(opps) == { opps[k].market_ticker : k \in DOMAIN opps }

\* C11: a market whose liquidity is below min_liquidity is dropped before
\* detection in every scan entry point, so it never appears in a scan result:
\* the detectors are not handed it, no pair or spread opportunity carries its
\* ticker, and no order is submitted for its ticker.
C11_IlliquidMarketNeverScanned ==
    \A t \in BelowMinLiquidity :
        /\ \A k \in DOMAIN markets : markets[k].ticker # t
        /\ t \notin TickersOf(scan_opps) \cup TickersOf(arbitrage_opps)
                     \cup TickersOf(trade_opps) \cup TickersOf(batch)
        /\ \A r \in DOMAIN result :
              t \notin TickersOf(result[r].arbitrage) \cup TickersOf(result[r].trades)
        /\ \A k \in DOMAIN gateway_log : gateway_log[k].ticker # t

\* C11 witness: an auto-executing scan_all_opportunities has returned
\* opportunities and submitted orders for a liquid market while the venue also
\* listed a crossed market below the minimum liquidity.
C11_Witness ==
    /\ mode = "all" /\ pc = "returned" /\ arg_auto
    /\ BelowMinLiquidity # {}
    /\ \E k \in DOMAIN fetched_markets :
          /\ fetched_markets[k].ticker \in BelowMinLiquidity
          /\ fetched_markets[k].yes_bid > fetched_markets[k].yes_ask
    /\ result # <<>> /\ result[1].trades # <<>>
    /\ gateway_log # <<>>

\* the snapshot of the market an opportunity was detected on
MarketOf(o) == CHOOSE m \in { markets[k] : k \in DOMAIN markets } : m.ticker = o.market_ticker
BidOf(o) == IF o.side = "yes" THEN MarketOf(o).yes_bid ELSE MarketOf(o).no_bid
AskOf(o) == IF o.side = "yes" THEN MarketOf(o).yes_ask ELSE MarketOf(o).no_ask
\* spread > 0 and net_profit > 0, net of the taker fee on the buy and the sell
IsProfitableSpread(o) ==
    /\ o.market_ticker \in { markets[k].ticker : k \in DOMAIN markets }
    /\ LET bid == BidOf(o)
           ask == AskOf(o)
       IN o.buy_price = ask /\ o.sell_price = bid /\ o.spread = bid - ask
    /\ o.spread > 0
    /\ o.net_profit = o.spread * o.quantity * (Scale \div 100)
                      - calculate_fee(o.buy_price, o.quantity, FALSE)
                      - calculate_fee(o.sell_price, o.quantity, FALSE)
    /\ o.net_profit > 0
InBotLoop == pc \in {"bot_exec", "bot_leg2"}
\* every spread opportunity the scan step returned, sorted or not, and every
\* one in the returned result
SpreadOpportunities ==
    { scan_opps[k] : k \in DOMAIN scan_opps } \cup { trade_opps[k] : k \in DOMAIN trade_opps }
    \cup UNION { { result[r].trades[k] : k \in DOMAIN result[r].trades } : r \in DOMAIN result }

\* C12: every opportunity the spread-capture detector returned has
\* spread = bid - ask > 0 on its side and net_profit > 0 after taker fees on
\* both legs, and so the orchestrator's net_profit > 0 filter removes nothing:
\* the batch it auto-executes is the whole list the scan step returned.
C12_DetectedSpreadsAreProfitable ==
    /\ \A o \in SpreadOpportunities : IsProfitableSpread(o)
    /\ profitable_of(trade_opps) = trade_opps
    /\ InBotLoop => batch = trade_opps

\* C12 witness: the orchestrator is auto-executing a batch of two detected
\* opportunities, one of them below the executor's minimum profit, from
\* snapshots in which another crossed side was discarded by the detector
\* because its fees exceed its spread.
C12_Witness ==
    /\ InBotLoop /\ arg_auto
    /\ Len(trade_opps) >= 2
    /\ \E k \in DOMAIN trade_opps : trade_opps[k].net_profit < Threshold
    /\ \E k \in DOMAIN markets :
          /\ markets[k].yes_bid > markets[k].yes_ask
          /\ markets[k].yes_ask # Absent
          /\ \A j \in DOMAIN trade_opps : trade_opps[j].market_ticker # markets[k].ticker

\* both rates of fee_price have been computed
RatesComputed == fee_price \in 1..99 /\ taker_rate # -1 /\ maker_rate # -1

\* C13: for every integer price p in 1..99 the maker fee rate is exactly half
\* the taker fee rate at p; the taker rate is 3.5% at p = 50 and 1% at p = 2
\* and p = 98 (rates in units of 1/10000, so 350 and 100).
C13_MakerRateIsHalfTakerRate ==
    RatesComputed =>
        /\ taker_rate > 0
        /\ 2 * maker_rate = taker_rate
        /\ fee_price = 50 => taker_rate = 350
        /\ fee_price \in {2, 98} => taker_rate = 100

\* C13 witness: the rates of the three prices the claim names have been
\* computed, the maker rate at 50 cents being 1.75%.
C13_Witness ==
    /\ RatesComputed
    /\ \/ fee_price = 50 /\ maker_rate = 175
       \/ fee_price \in {2, 98} /\ maker_rate = 50

InScanStep == pc \in {"scan_exec", "scan_leg2"}
ScanLeft == pc \in {"returned", "sleeping", "raised", "interrupted", "stopped"}

\* C14: when scan_immediate_trades or scan_all_opportunities is left, by a
\* normal return, by the early return on an empty market list or by an
\* exception raised inside the executor's scan step, the executor's
\* auto_execute flag is what it was when the call began; so between calls it
\* is always the flag the bot was constructed with, whatever auto_execute
\* arguments earlier calls were given.
C14_FlagRestoredAfterScan ==
    /\ (InCall /\ ScanLeft) => executor_auto = original_auto
    /\ ~InScanStep => executor_auto = auto_execute_trades

\* C14 witness: scan_immediate_trades(auto_execute=True) on
\* a bot constructed without auto-execution, was left by a KeyboardInterrupt
\* raised while the executor's scan step waited for the venue's answer to a
\* second leg.
C14_Witness ==
    /\ mode = "immediate" /\ pc = "interrupted"
    /\ stop_pc = "scan_leg2"
    /\ arg_auto /\ ~auto_execute_trades
    /\ gateway_log # <<>>
    /\ ~executor_auto

\* run_continuous was called with max_scans = N >= 1
BoundedRun == mode = "continuous" /\ max_scans >= 1
ScanInProgress == pc \in {"scan_exec", "scan_leg2", "bot_exec", "bot_leg2"}
\* scans run one at a time and never more than max_scans of them
ScansInTurn ==
    BoundedRun =>
        /\ scans_done <= scans_begun /\ scans_begun <= scans_done + 1
        /\ scans_begun <= max_scans
        /\ pc \in {"loop_head", "sleeping", "finished"} => scans_begun = scans_done
        /\ ScanInProgress => scans_begun = scans_done + 1
        /\ pc = "finished" => scans_done = max_scans

\* C15: run_continuous with max_scans = N >= 1 that is never interrupted
\* performs exactly N scans, each one run to completion before the next
\* begins, and then terminates; a scan N+1 is never started.
C15_ExactlyMaxScansThenTerminates ==
    /\ []ScansInTurn
    /\ (BoundedRun /\ pc = "loop_head") ~> (pc = "finished" \/ pc = "stopped")

\* C15 witness: an auto-executing run_continuous with the largest max_scans
\* has left its loop by the break, never interrupted, all its scans done.
C15_Witness ==
    /\ mode = "continuous" /\ pc = "finished" /\ arg_auto
    /\ max_scans = MaxScanCount
    /\ scans_begun = max_scans /\ scans_done = max_scans
    /\ scan_count = max_scans + 1
    /\ stop_pc = ""

====
